---- MODULE Spec2Model ----
(***************************************************************************)
(* The user record store of src/main.rs: an in-memory HashMap<String,User> *)
(* behind Arc<Mutex<..>>, five CRUD functions over it, whole-snapshot      *)
(* persistence to users_data.txt, and the interactive menu loop that       *)
(* drives them.                                                            *)
(*                                                                         *)
(* Spec      drives the five CRUD functions directly, with arbitrary       *)
(*           arguments, the way the unit tests call them.                  *)
(* ShellSpec runs main(): load, then display_menu in a loop.               *)
(***************************************************************************)
EXTENDS Integers, Sequences, FiniteSets, TLC

VARIABLES
    db,     \* the HashMap<String, User> inside the Mutex (main.rs:28,32)
    file,   \* users_data.txt on disk
    pc,     \* where main() is: "start" | "menu" | "exit" | "error"; "test" under
            \* Spec, "built" | "saved" | "save_failed" | "loaded" | "load_error"
            \* under RoundTripSpec, "conc" under ConcSpec
    last,   \* the last call made and what it returned
    hist,   \* per key, the last successful mutation made by a direct call of a
            \* CRUD function (kept under Spec; ShellSpec leaves it as it starts)
    lock,   \* the Mutex around db: Free, or the caller holding its guard
    task    \* per concurrent caller, where it is and the text it serialized
            \* (used under ConcSpec; the other specifications have one caller
            \* whose calls run from lock to drop in one step)

vars == <<db, file, pc, last, hist, lock, task>>

(***************************************************************************)
(* Data                                                                    *)
(***************************************************************************)

\* Number of distinct CPF strings the callers use.  A cpf i stands for the
\* i-th of NumCpf distinct strings of 11 digits.
NumCpf == 2

Cpfs == 1..NumCpf

\* enum UserRole { Admin, User, Guest }: the variants by discriminant.
Admin == 0
User == 1
Guest == 2
UserRole == {Admin, User, Guest}

\* NaiveDate::from_ymd_opt(1995, 5, 15)
NaiveDate(y, m, d) == [year |-> y, month |-> m, day |-> d]

\* The two field sets the tests build: mock_user and updated_user.
mock_user(cpf) ==
    [cpf       |-> cpf,
     full_name |-> "Test User",
     email     |-> "testuser@example.com",
     birth     |-> NaiveDate(1995, 5, 15),
     role      |-> User]

updated_user(cpf) ==
    [cpf       |-> cpf,
     full_name |-> "Updated User",
     email     |-> "updateduser@example.com",
     birth     |-> NaiveDate(1995, 5, 15),
     role      |-> Admin]

\* The records callers hand to the store.
Users == {mock_user(c) : c \in Cpfs} \cup {updated_user(c) : c \in Cpfs}

\* HashMap::new()
EmptyMap == <<>>

\* Every HashMap<String, User> over the keys and records above.
Maps == UNION {[K -> Users] : K \in SUBSET Cpfs}

(***************************************************************************)
(* Result<T, Box<dyn Error>>                                               *)
(***************************************************************************)

DuplicateKey == "CPF ja cadastrado!"
NotFound == "Usuario nao encontrado!"

Ok(user) == [ok |-> TRUE, val |-> <<user>>, all |-> EmptyMap, err |-> ""]
OkUnit == [ok |-> TRUE, val |-> <<>>, all |-> EmptyMap, err |-> ""]
OkMap(d) == [ok |-> TRUE, val |-> <<>>, all |-> d, err |-> ""]
Err(msg) == [ok |-> FALSE, val |-> <<>>, all |-> EmptyMap, err |-> msg]

(***************************************************************************)
(* The CRUD functions.  Each takes the map it finds inside the Mutex and   *)
(* yields the map it leaves there and the value it returns.  The guard     *)
(* taken by db.lock().unwrap() is dropped at every return.                 *)
(***************************************************************************)

\* set_user without the contains_key check: insert overwrites.
set_user_overwrite(d, user) ==
    [db |-> (user.cpf :> user) @@ d, res |-> Ok(user)]

set_user(d, user) ==
    IF user.cpf \in DOMAIN d
    THEN [db |-> d, res |-> Err(DuplicateKey)]
    ELSE [db |-> (user.cpf :> user) @@ d, res |-> Ok(user)]

\* get_users that reports an empty map as an error, the way get_user reports
\* a missing record.
get_users_nonempty(d) ==
    IF d = EmptyMap
    THEN [db |-> d, res |-> Err(NotFound)]
    ELSE [db |-> d, res |-> OkMap(d)]

get_users(d) == [db |-> d, res |-> OkMap(d)]

get_user(d, cpf) ==
    IF cpf \in DOMAIN d
    THEN [db |-> d, res |-> Ok(d[cpf])]
    ELSE [db |-> d, res |-> Err(NotFound)]

\* update_user that moves the record to the key named by its cpf field.
update_user_rekey(d, cpf, new_user) ==
    IF cpf \in DOMAIN d
    THEN [db  |-> (new_user.cpf :> new_user)
                  @@ [k \in DOMAIN d \ {cpf} |-> d[k]],
          res |-> Ok(new_user)]
    ELSE [db |-> d, res |-> Err(NotFound)]

\* update_user written with insert instead of get_mut: an absent key is added.
update_user_upsert(d, cpf, new_user) ==
    [db |-> (cpf :> new_user) @@ d, res |-> Ok(new_user)]

\* update_user that assigns the fields one by one and forgets email.
update_user_merge(d, cpf, new_user) ==
    IF cpf \in DOMAIN d
    THEN LET d2 == [d EXCEPT ![cpf] = [new_user EXCEPT !.email = d[cpf].email]]
         IN  [db |-> d2, res |-> Ok(d2[cpf])]
    ELSE [db |-> d, res |-> Err(NotFound)]

update_user(d, cpf, new_user) ==
    IF cpf \in DOMAIN d
    THEN LET d2 == [d EXCEPT ![cpf] = new_user]
         IN  [db |-> d2, res |-> Ok(d2[cpf])]
    ELSE [db |-> d, res |-> Err(NotFound)]

\* delete_user that empties the map instead of removing one key.
delete_user_clear(d, cpf) ==
    IF cpf \in DOMAIN d
    THEN [db |-> EmptyMap, res |-> OkUnit]
    ELSE [db |-> d, res |-> Err(NotFound)]

\* delete_user that looks the key up but does not remove it.
delete_user_keep(d, cpf) ==
    IF cpf \in DOMAIN d
    THEN [db |-> d, res |-> OkUnit]
    ELSE [db |-> d, res |-> Err(NotFound)]

delete_user(d, cpf) ==
    IF cpf \in DOMAIN d
    THEN [db |-> [k \in DOMAIN d \ {cpf} |-> d[k]], res |-> OkUnit]
    ELSE [db |-> d, res |-> Err(NotFound)]

(***************************************************************************)
(* Persistence: users_data.txt holds serde_json's text of the whole map    *)
(***************************************************************************)

\* #[derive(Serialize, Deserialize)] on UserRole: a variant is written as its
\* name.
RoleTag(r) ==
    CASE r = Admin -> "Admin"
      [] r = User  -> "User"
      [] r = Guest -> "Guest"

RoleTags == {RoleTag(r) : r \in UserRole}

ParseRole(tag) == CHOOSE r \in UserRole : RoleTag(r) = tag

DigitChars == <<"0", "1", "2", "3", "4", "5", "6", "7", "8", "9">>

Digit(n) == DigitChars[n + 1]

IsDigit(c) == \E n \in 0..9 : Digit(n) = c

DigitVal(c) == CHOOSE n \in 0..9 : Digit(n) = c

\* FormatDate with day and month in the order of the console prompt
\* (DD-MM-YYYY): YYYY-DD-MM.
FormatDate_dmy(d) ==
    <<Digit(d.year \div 1000), Digit((d.year \div 100) % 10),
      Digit((d.year \div 10) % 10), Digit(d.year % 10), "-",
      Digit(d.day \div 10), Digit(d.day % 10), "-",
      Digit(d.month \div 10), Digit(d.month % 10)>>

\* chrono writes a NaiveDate as the string YYYY-MM-DD.
FormatDate(d) ==
    <<Digit(d.year \div 1000), Digit((d.year \div 100) % 10),
      Digit((d.year \div 10) % 10), Digit(d.year % 10), "-",
      Digit(d.month \div 10), Digit(d.month % 10), "-",
      Digit(d.day \div 10), Digit(d.day % 10)>>

IsLeap(y) == (y % 4 = 0 /\ y % 100 # 0) \/ y % 400 = 0

DaysIn(y, m) ==
    IF m = 2 THEN (IF IsLeap(y) THEN 28 + 1 ELSE 28)
    ELSE IF m \in {4, 6, 9, 11} THEN 30 ELSE 31

\* chrono reads a NaiveDate back from YYYY-MM-DD and refuses anything that is
\* no calendar date.
ParseDate(s) ==
    IF /\ Len(s) = 10
       /\ s[5] = "-" /\ s[8] = "-"
       /\ \A i \in {1, 2, 3, 4, 6, 7, 9, 10} : IsDigit(s[i])
    THEN LET y == 1000 * DigitVal(s[1]) + 100 * DigitVal(s[2])
                  + 10 * DigitVal(s[3]) + DigitVal(s[4])
             m == 10 * DigitVal(s[6]) + DigitVal(s[7])
             d == 10 * DigitVal(s[9]) + DigitVal(s[10])
         IN  IF m \in 1..12 /\ d \in 1..DaysIn(y, m)
             THEN [ok |-> TRUE, date |-> NaiveDate(y, m, d)]
             ELSE [ok |-> FALSE, date |-> NaiveDate(0, 0, 0)]
    ELSE [ok |-> FALSE, date |-> NaiveDate(0, 0, 0)]

\* #[derive(Serialize)] on User: the JSON object of one record.
UserToJson(u) ==
    [cpf       |-> u.cpf,
     full_name |-> u.full_name,
     email     |-> u.email,
     birth     |-> FormatDate(u.birth),
     role      |-> RoleTag(u.role)]

\* #[derive(Deserialize)] on User.
JsonIsUser(j) == ParseDate(j.birth).ok /\ j.role \in RoleTags

UserFromJson(j) ==
    [cpf       |-> j.cpf,
     full_name |-> j.full_name,
     email     |-> j.email,
     birth     |-> ParseDate(j.birth).date,
     role      |-> ParseRole(j.role)]

\* A text: the opening brace, the "key": {record} members in the order they
\* were written, the closing brace.  A text cut short has lost its closing
\* brace, and with it possibly members and the opening brace.
Text(open, entries, close) ==
    [open |-> open, entries |-> entries, close |-> close]

EmptyText == Text(FALSE, <<>>, FALSE)

\* The orders in which a HashMap with key set K can be iterated.
Orders(K) ==
    {o \in [1..Cardinality(K) -> K] : \A i, j \in DOMAIN o : o[i] = o[j] => i = j}

\* serde_json::to_string(&*db), the map being iterated in order o.
to_string(d, o) ==
    Text(TRUE,
         [i \in DOMAIN o |-> [key |-> o[i], value |-> UserToJson(d[o[i]])]],
         TRUE)

\* serde_json::from_str::<HashMap<String, User>>: an error unless the text
\* is one whole object of records; of two members with one key the later
\* stays.
from_str(text) ==
    IF /\ text.open
       /\ text.close
       /\ \A i \in DOMAIN text.entries : JsonIsUser(text.entries[i].value)
    THEN LET es == text.entries
             at(k) == CHOOSE i \in DOMAIN es :
                          /\ es[i].key = k
                          /\ \A j \in DOMAIN es : es[j].key = k => j <= i
         IN  [ok  |-> TRUE,
              map |-> [k \in {es[i].key : i \in DOMAIN es}
                          |-> UserFromJson(es[at(k)].value)]]
    ELSE [ok |-> FALSE, map |-> EmptyMap]

\* users_data.txt: missing, or holding a text.
Absent == [exists |-> FALSE, text |-> EmptyText]

Holding(text) == [exists |-> TRUE, text |-> text]

\* What a fs::write that fails can leave of the text it was writing: the
\* file created or truncated, then some of the members, never the end.
CutShort(text) ==
    {EmptyText} \cup
    {Text(TRUE, SubSeq(text.entries, 1, n), FALSE) : n \in 0..Len(text.entries)}

\* fs::write("users_data.txt", text): Ok with the file replaced, or Err with
\* the file untouched (it could not be opened) or cut short.
fs_write(f, text) ==
    {[file |-> Holding(text), ok |-> TRUE], [file |-> f, ok |-> FALSE]}
    \cup {[file |-> Holding(t), ok |-> FALSE] : t \in CutShort(text)}

\* load_users_from_file that treats a text it cannot parse like a missing
\* file.
load_users_from_file_lenient(d, f) ==
    IF ~f.exists
    THEN [db |-> d, ok |-> TRUE]
    ELSE LET users == from_str(f.text)
         IN  IF users.ok
             THEN [db |-> users.map, ok |-> TRUE]
             ELSE [db |-> d, ok |-> TRUE]

\* load_users_from_file: no file, nothing done; a text that parses replaces
\* the map; one that does not is an Err and the map stays.
load_users_from_file(d, f) ==
    IF ~f.exists
    THEN [db |-> d, ok |-> TRUE]
    ELSE LET users == from_str(f.text)
         IN  IF users.ok
             THEN [db |-> users.map, ok |-> TRUE]
             ELSE [db |-> d, ok |-> FALSE]

\* save_users_to_file: every way the call can end, with the file it leaves.
save_users_to_file(d, f) ==
    UNION {fs_write(f, to_string(d, o)) : o \in Orders(DOMAIN d)}

(***************************************************************************)
(* Bookkeeping of calls                                                    *)
(***************************************************************************)

\* A call: the function or menu command, its cpf argument (<<>> when it takes
\* none), its User argument (<<>> when it takes none), the Result it got from
\* the store, and what became of the save that followed ("none" | "ok" |
\* "failed").
Call(op, cpf, user, res, save) ==
    [op |-> op, cpf |-> cpf, user |-> user, res |-> res, save |-> save]

NoCall == Call("none", <<>>, <<>>, OkUnit, "none")

Mark(how, rec) == [how |-> how, rec |-> rec]

NoHist == [k \in Cpfs |-> Mark("none", <<>>)]

\* hist after a call of a mutating function on key cpf that returned res.
Record(h, how, cpf, res, rec) ==
    IF res.ok THEN [h EXCEPT ![cpf] = Mark(how, rec)] ELSE h

(***************************************************************************)
(* The Mutex and the callers that contend for it                           *)
(***************************************************************************)

\* Number of callers that share the Arc<Mutex<..>>.
NumCallers == 2

Callers == 1..NumCallers

\* The Mutex with no guard alive.
Free == 0

\* Where a caller is ("idle" between calls) and the file_content it holds.
Task(at, buf) == [at |-> at, buf |-> buf]

NoTasks == [c \in Callers |-> Task("idle", EmptyText)]

(***************************************************************************)
(* Spec: the CRUD functions called directly on a fresh mock_database()     *)
(***************************************************************************)

mock_database == EmptyMap

Init ==
    /\ db = mock_database
    /\ file = Absent
    /\ pc = "test"
    /\ last = NoCall
    /\ hist = NoHist
    /\ lock = Free
    /\ task = NoTasks

CallSetUser ==
    \E user \in Users :
        LET r == set_user(db, user) IN
        /\ db' = r.db
        /\ last' = Call("set_user", <<user.cpf>>, <<user>>, r.res, "none")
        /\ hist' = Record(hist, "created", user.cpf, r.res, <<user>>)
        /\ UNCHANGED <<file, pc, lock, task>>

CallGetUsers ==
    LET r == get_users(db) IN
    /\ db' = r.db
    /\ last' = Call("get_users", <<>>, <<>>, r.res, "none")
    /\ UNCHANGED <<file, pc, hist, lock, task>>

CallGetUser ==
    \E cpf \in Cpfs :
        LET r == get_user(db, cpf) IN
        /\ db' = r.db
        /\ last' = Call("get_user", <<cpf>>, <<>>, r.res, "none")
        /\ UNCHANGED <<file, pc, hist, lock, task>>

CallUpdateUser ==
    \E cpf \in Cpfs, new_user \in Users :
        LET r == update_user(db, cpf, new_user) IN
        /\ db' = r.db
        /\ last' = Call("update_user", <<cpf>>, <<new_user>>, r.res, "none")
        /\ hist' = Record(hist, "updated", cpf, r.res, <<new_user>>)
        /\ UNCHANGED <<file, pc, lock, task>>

CallDeleteUser ==
    \E cpf \in Cpfs :
        LET r == delete_user(db, cpf) IN
        /\ db' = r.db
        /\ last' = Call("delete_user", <<cpf>>, <<>>, r.res, "none")
        /\ hist' = Record(hist, "deleted", cpf, r.res, <<>>)
        /\ UNCHANGED <<file, pc, lock, task>>

Next ==
    \/ CallSetUser
    \/ CallGetUsers
    \/ CallGetUser
    \/ CallUpdateUser
    \/ CallDeleteUser

Spec == Init /\ [][Next]_vars

(***************************************************************************)
(* ShellSpec: main().  The console is taken to work: a read or a flush     *)
(* that fails ends main before the command has called the store.           *)
(***************************************************************************)

\* What users_data.txt can hold when the program starts: nothing, a snapshot
\* an earlier run saved, or what an earlier failed save left.
Snapshots == UNION {{to_string(d, o) : o \in Orders(DOMAIN d)} : d \in Maps}

Files ==
    {Absent} \cup {Holding(t) : t \in Snapshots}
             \cup {Holding(c) : c \in UNION {CutShort(t) : t \in Snapshots}}

ParseError == "serde_json::Error"

ShellInit ==
    /\ db = EmptyMap
    /\ file \in Files
    /\ pc = "start"
    /\ last = NoCall
    /\ hist = NoHist
    /\ lock = Free
    /\ task = NoTasks

\* main, up to the loop: load_users_from_file(&db)?
Startup ==
    /\ pc = "start"
    /\ LET r == load_users_from_file(db, file) IN
       /\ db' = r.db
       /\ pc' = IF r.ok THEN "menu" ELSE "error"
       /\ last' = Call("load", <<>>, <<>>,
                       IF r.ok THEN OkUnit ELSE Err(ParseError), "none")
    /\ UNCHANGED <<file, hist, lock, task>>

\* The end of a command that mutated the map into d2: save_users_to_file(db)?
\* and back to the loop, or out of main with the error.
SaveAndReturn(op, cpf, user, res, d2) ==
    \E s \in save_users_to_file(d2, file) :
        /\ db' = d2
        /\ file' = s.file
        /\ pc' = IF s.ok THEN "menu" ELSE "error"
        /\ last' = Call(op, cpf, user, res, IF s.ok THEN "ok" ELSE "failed")
        /\ UNCHANGED <<hist, lock, task>>

\* The end of a command that returns without a save: Ok(()) to the loop when
\* back is TRUE, the error out of main otherwise.
Return(op, cpf, user, res, back) ==
    /\ pc' = IF back THEN "menu" ELSE "error"
    /\ last' = Call(op, cpf, user, res, "none")
    /\ UNCHANGED <<db, file, hist, lock, task>>

\* "1": input_user, set_user(db, &user).await?, save_users_to_file(db)?
MenuCreate ==
    /\ pc = "menu"
    /\ \E user \in Users :
           LET r == set_user(db, user) IN
           IF r.res.ok
           THEN SaveAndReturn("create", <<user.cpf>>, <<user>>, r.res, r.db)
           ELSE Return("create", <<user.cpf>>, <<user>>, r.res, FALSE)

\* "2": input_cpf, get_user; if found input_user, update_user(..).await?,
\* save_users_to_file(db)?
MenuUpdate ==
    /\ pc = "menu"
    /\ \E cpf \in Cpfs, updated \in Users :
           LET g == get_user(db, cpf) IN
           IF g.res.ok
           THEN LET r == update_user(g.db, cpf, updated) IN
                IF r.res.ok
                THEN SaveAndReturn("update", <<cpf>>, <<updated>>, r.res, r.db)
                ELSE Return("update", <<cpf>>, <<updated>>, r.res, FALSE)
           ELSE Return("update", <<cpf>>, <<>>, g.res, TRUE)

\* "3" with the save left out of the Ok branch.
MenuDelete_nosave ==
    /\ pc = "menu"
    /\ \E cpf \in Cpfs :
           LET r == delete_user(db, cpf) IN
           /\ pc' = "menu"
           /\ db' = r.db
           /\ last' = Call("delete", <<cpf>>, <<>>, r.res, "none")
           /\ UNCHANGED <<file, hist, lock, task>>

\* "3": input_cpf, delete_user; if Ok save_users_to_file(db)?
MenuDelete ==
    /\ pc = "menu"
    /\ \E cpf \in Cpfs :
           LET r == delete_user(db, cpf) IN
           IF r.res.ok
           THEN SaveAndReturn("delete", <<cpf>>, <<>>, r.res, r.db)
           ELSE Return("delete", <<cpf>>, <<>>, r.res, TRUE)

\* "4" followed by a save, like the mutating commands.
MenuList_saves ==
    /\ pc = "menu"
    /\ LET r == get_users(db) IN
       SaveAndReturn("list", <<>>, <<>>, r.res, r.db)

\* "4": get_users(db).await? and the listing
MenuList ==
    /\ pc = "menu"
    /\ LET r == get_users(db) IN
       Return("list", <<>>, <<>>, r.res, r.res.ok)

\* "5": process::exit(0)
MenuExit ==
    /\ pc = "menu"
    /\ pc' = "exit"
    /\ last' = Call("exit", <<>>, <<>>, OkUnit, "none")
    /\ UNCHANGED <<db, file, hist, lock, task>>

\* any other line
MenuInvalid ==
    /\ pc = "menu"
    /\ Return("invalid", <<>>, <<>>, OkUnit, TRUE)

\* One pass of the loop of main: display_menu(&db).await?
display_menu ==
    \/ MenuCreate
    \/ MenuUpdate
    \/ MenuDelete
    \/ MenuList
    \/ MenuExit
    \/ MenuInvalid

ShellNext ==
    \/ Startup
    \/ display_menu

ShellSpec == ShellInit /\ [][ShellNext]_vars

(***************************************************************************)
(* RoundTripSpec: a map is saved by one run and loaded by the next          *)
(***************************************************************************)

\* A record at the edges of what input_user lets through: the last year
\* allowed, a leap day, the third role.
edge_user(cpf) ==
    [cpf       |-> cpf,
     full_name |-> "Test User Name",
     email     |-> "person.one@example.com",
     birth     |-> NaiveDate(2024, 2, 29),
     role      |-> Guest]

RoundTripUsers == Users \cup {edge_user(c) : c \in Cpfs}

\* The maps of 0, 1 or more of these records.
RoundTripMaps == UNION {[K -> RoundTripUsers] : K \in SUBSET Cpfs}

RoundTripInit ==
    /\ db \in RoundTripMaps
    /\ file = Absent
    /\ pc = "built"
    /\ last = NoCall
    /\ hist = NoHist
    /\ lock = Free
    /\ task = NoTasks

\* save_users_to_file(&db); last keeps the map that was saved.
RoundTripSave ==
    /\ pc = "built"
    /\ \E s \in save_users_to_file(db, file) :
           /\ file' = s.file
           /\ pc' = IF s.ok THEN "saved" ELSE "save_failed"
           /\ last' = Call("save", <<>>, <<>>, OkMap(db),
                           IF s.ok THEN "ok" ELSE "failed")
    /\ UNCHANGED <<db, hist, lock, task>>

\* The next run: main builds an empty map and calls load_users_from_file.
RoundTripLoad ==
    /\ pc = "saved"
    /\ LET r == load_users_from_file(EmptyMap, file) IN
       /\ db' = r.db
       /\ pc' = IF r.ok THEN "loaded" ELSE "load_error"
    /\ UNCHANGED <<file, last, hist, lock, task>>

RoundTripNext ==
    \/ RoundTripSave
    \/ RoundTripLoad

RoundTripSpec == RoundTripInit /\ [][RoundTripNext]_vars

(***************************************************************************)
(* ConcSpec: several callers run the bodies of the menu commands on one    *)
(* Arc<Mutex<..>>: a CRUD function, and after a mutation that succeeded    *)
(* save_users_to_file.  A step is what a caller does without giving the    *)
(* others a chance to run: taking the lock, the function body up to the    *)
(* return that drops the guard, opening the file, writing it.              *)
(***************************************************************************)

\* A Mutex that lets lock() return while another guard is alive.
Lockable_always(l) == TRUE

\* db.lock() returns once no guard is alive.
Lockable(l) == l = Free

\* The guard of caller c going out of scope.
drop(l, c) == IF l = c THEN Free ELSE l

At(c) == task[c].at

Move(c, at, buf) == task' = [task EXCEPT ![c] = Task(at, buf)]

ConcInit ==
    /\ db = EmptyMap
    /\ file = Absent
    /\ pc = "conc"
    /\ last = NoCall
    /\ hist = NoHist
    /\ lock = Free
    /\ task = NoTasks

\* let db = db.lock().unwrap() at the head of a CRUD function
StoreEnter(c) ==
    /\ At(c) = "idle"
    /\ Lockable(lock)
    /\ lock' = c
    /\ Move(c, "in_op", EmptyText)
    /\ UNCHANGED <<db, file, pc, last, hist>>

\* The body of a CRUD function that yields r, and its return: the guard is
\* dropped and the caller goes on at `at`.
StoreLeave(c, r, at) ==
    /\ db' = r.db
    /\ lock' = drop(lock, c)
    /\ Move(c, at, EmptyText)
    /\ UNCHANGED <<file, pc, last, hist>>

\* set_user(db, &user).await?  then on to the save.  The callers create the
\* records of mock_user.
ConcSetUser(c) ==
    /\ At(c) = "in_op"
    /\ \E cpf \in Cpfs :
           LET r == set_user(db, mock_user(cpf)) IN
           StoreLeave(c, r, IF r.res.ok THEN "mutated" ELSE "error")

\* get_users(db).await?
ConcGetUsers(c) ==
    /\ At(c) = "in_op"
    /\ StoreLeave(c, get_users(db), "idle")

\* if let Ok(user) = get_user(db, &cpf).await
ConcGetUser(c) ==
    /\ At(c) = "in_op"
    /\ \E cpf \in Cpfs : StoreLeave(c, get_user(db, cpf), "idle")

\* update_user(db, &cpf, &updated_user).await?  then on to the save.  The
\* callers update a key to its updated_user.
ConcUpdateUser(c) ==
    /\ At(c) = "in_op"
    /\ \E cpf \in Cpfs :
           LET r == update_user(db, cpf, updated_user(cpf)) IN
           StoreLeave(c, r, IF r.res.ok THEN "mutated" ELSE "error")

\* if delete_user(db, &cpf).await.is_ok()  then on to the save
ConcDeleteUser(c) ==
    /\ At(c) = "in_op"
    /\ \E cpf \in Cpfs :
           LET r == delete_user(db, cpf) IN
           StoreLeave(c, r, IF r.res.ok THEN "mutated" ELSE "idle")

\* save_users_to_file with the guard dropped once the text is made.
SaveEnter_unlocked(c) ==
    /\ At(c) = "mutated"
    /\ Lockable(lock)
    /\ \E o \in Orders(DOMAIN db) : Move(c, "serialized", to_string(db, o))
    /\ UNCHANGED <<db, file, pc, last, hist, lock>>

\* save_users_to_file: let db = db.lock().unwrap(); serde_json::to_string(&*db)?
SaveEnter(c) ==
    /\ At(c) = "mutated"
    /\ Lockable(lock)
    /\ lock' = c
    /\ \E o \in Orders(DOMAIN db) : Move(c, "serialized", to_string(db, o))
    /\ UNCHANGED <<db, file, pc, last, hist>>

\* fs::write with the guard dropped before it.
SaveWriteBegin_unlocked(c) ==
    /\ At(c) = "serialized"
    /\ lock' = drop(lock, c)
    /\ \/ /\ file' = Holding(EmptyText)
          /\ Move(c, "writing", task[c].buf)
       \/ /\ file' = file
          /\ Move(c, "save_failed", EmptyText)
    /\ UNCHANGED <<db, pc, last, hist>>

\* fs::write, its start: the file is created or emptied, or cannot be opened
\* and save_users_to_file returns the error.
SaveWriteBegin(c) ==
    /\ At(c) = "serialized"
    /\ \/ /\ file' = Holding(EmptyText)
          /\ Move(c, "writing", task[c].buf)
          /\ lock' = lock
       \/ /\ file' = file
          /\ Move(c, "save_failed", EmptyText)
          /\ lock' = drop(lock, c)
    /\ UNCHANGED <<db, pc, last, hist>>

\* fs::write, its end, and the return of save_users_to_file: the text is in
\* the file, or the write failed and left it cut short.
SaveWriteEnd(c) ==
    /\ At(c) = "writing"
    /\ \/ /\ file' = Holding(task[c].buf)
          /\ Move(c, "idle", EmptyText)
       \/ /\ \E t \in CutShort(task[c].buf) : file' = Holding(t)
          /\ Move(c, "save_failed", EmptyText)
    /\ lock' = drop(lock, c)
    /\ UNCHANGED <<db, pc, last, hist>>

ConcNext ==
    \E c \in Callers :
        \/ StoreEnter(c)
        \/ ConcSetUser(c)
        \/ ConcGetUsers(c)
        \/ ConcGetUser(c)
        \/ ConcUpdateUser(c)
        \/ ConcDeleteUser(c)
        \/ SaveEnter(c)
        \/ SaveWriteBegin(c)
        \/ SaveWriteEnd(c)

ConcSpec == ConcInit /\ [][ConcNext]_vars

(***************************************************************************)
(* Properties of the CRUD functions, checked under Spec                    *)
(***************************************************************************)

\* The error kind the specification names for an update that would change the
\* primary key.  No function of main.rs produces it.
ImmutableKeyViolation == "ImmutableKeyViolation"

\* The cpf argument and the User argument of the last call.
LastCpf == last.cpf[1]
LastUser == last.user[1]

\* C1: update(id, new_record) with id present and new_record.id # id fails with
\* ImmutableKeyViolation and leaves the collection unchanged.
C1_UpdateRejectsKeyChange ==
    [][(/\ last'.op = "update_user"
        /\ last'.cpf[1] \in DOMAIN db
        /\ last'.user[1].cpf # last'.cpf[1])
       => (/\ last'.res = Err(ImmutableKeyViolation)
           /\ db' = db)]_vars

\* C2: in every reachable state each record stored under key k has its cpf
\* field equal to k.
C2_KeyEqualsId == \A k \in DOMAIN db : db[k].cpf = k

\* C3: at no point do two distinct entries of the collection carry the same
\* cpf field.
C3_UniqueIds ==
    \A k1, k2 \in DOMAIN db : k1 # k2 => db[k1].cpf # db[k2].cpf

\* C5: create(r) while key r.cpf is present, or after an earlier create or
\* update of that key with no delete since, fails with DuplicateKey and leaves
\* every entry and the size of the collection as they were.
C5_DuplicateCreateFails ==
    [][(/\ last'.op = "set_user"
        /\ \/ last'.cpf[1] \in DOMAIN db
           \/ hist[last'.cpf[1]].how \in {"created", "updated"})
       => (/\ last'.res = Err(DuplicateKey)
           /\ db' = db
           /\ Cardinality(DOMAIN db') = Cardinality(DOMAIN db))]_vars

\* C5 witness: a second create of a key failed, and the entry under the key is
\* still the first record, which differs from the one offered.
C5_Witness ==
    /\ last.op = "set_user"
    /\ last.res = Err(DuplicateKey)
    /\ hist[LastCpf] = Mark("created", <<mock_user(LastCpf)>>)
    /\ LastUser = updated_user(LastCpf)
    /\ db[LastCpf] = mock_user(LastCpf)

\* C6: read, update and delete of an absent key fail with NotFound and leave
\* the collection as it was; update never inserts.
C6_AbsentKeyNotFound ==
    [][(/\ last'.op \in {"get_user", "update_user", "delete_user"}
        /\ last'.cpf[1] \notin DOMAIN db)
       => (/\ last'.res = Err(NotFound)
           /\ db' = db)]_vars

\* C6 witness: an update of an absent key was refused while another key is
\* stored.
C6_Witness ==
    /\ last.op = "update_user"
    /\ last.res = Err(NotFound)
    /\ LastCpf \notin DOMAIN db
    /\ DOMAIN db # {}

\* C7: a successful update(id, r2) returns r2, and until the next mutation of
\* id a read of id returns r2 in every field.
C7_UpdateReplacesFully ==
    /\ (last.op = "update_user" /\ last.res.ok) => last.res = Ok(LastUser)
    /\ \A k \in Cpfs :
           hist[k].how = "updated" =>
               /\ k \in DOMAIN db
               /\ get_user(db, k).res = Ok(hist[k].rec[1])
               /\ (last.op = "get_user" /\ LastCpf = k)
                      => last.res = Ok(hist[k].rec[1])

\* C7 witness: a read returned the record of the preceding update, which
\* replaced a record with other field values.
C7_Witness ==
    /\ last.op = "get_user"
    /\ hist[LastCpf] = Mark("updated", <<updated_user(LastCpf)>>)
    /\ last.res = Ok(updated_user(LastCpf))

\* C8: a successful create(r) returns r, and until an update or delete of
\* r.cpf a read of r.cpf returns r, whatever else the collection holds.
C8_ReadAfterCreate ==
    /\ (last.op = "set_user" /\ last.res.ok) => last.res = Ok(LastUser)
    /\ \A k \in Cpfs :
           hist[k].how = "created" =>
               /\ hist[k].rec[1].cpf = k
               /\ get_user(db, k).res = Ok(hist[k].rec[1])
               /\ (last.op = "get_user" /\ LastCpf = k)
                      => last.res = Ok(hist[k].rec[1])

\* C8 witness: a read returned the created record while another key has been
\* updated and is stored beside it.
C8_Witness ==
    /\ last.op = "get_user"
    /\ hist[LastCpf].how = "created"
    /\ last.res = Ok(hist[LastCpf].rec[1])
    /\ \E k \in DOMAIN db \ {LastCpf} : hist[k].how = "updated"

\* C9: after a successful delete(id), until a create of id, a read of id and a
\* second delete of id fail with NotFound.
C9_DeleteThenNotFound ==
    \A k \in Cpfs :
        hist[k].how = "deleted" =>
            /\ get_user(db, k).res = Err(NotFound)
            /\ delete_user(db, k).res = Err(NotFound)
            /\ (last.op = "get_user" /\ LastCpf = k)
                   => last.res = Err(NotFound)

\* C9 witness: a second delete of a deleted key was refused.
C9_Witness ==
    /\ last.op = "delete_user"
    /\ last.res = Err(NotFound)
    /\ hist[LastCpf].how = "deleted"

\* C16: read_all never fails and returns a map equal to the whole collection,
\* which it leaves as it is; on a fresh store that is the empty map.
C16_ReadAllReturnsCollection ==
    [][last'.op = "get_users" =>
          /\ last'.res = OkMap(db)
          /\ db' = db
          /\ (\A k \in Cpfs : hist[k].how = "none") => last'.res.all = EmptyMap
      ]_vars

\* C16 witness: read_all returned a map of two records, one under a key other
\* than its cpf.
C16_Witness ==
    /\ last.op = "get_users"
    /\ last.res = OkMap(db)
    /\ Cardinality(DOMAIN db) = 2
    /\ \E k \in DOMAIN db : db[k].cpf # k

\* C19: a successful create(r) adds the key r.cpf and no other, a successful
\* delete(id) removes the key id and no other, a successful update(id, r)
\* leaves the set of keys as it is; the entry under every other key stays.
C19_FrameOfMutations ==
    [][(last'.op \in {"set_user", "update_user", "delete_user"} /\ last'.res.ok)
       => LET k == last'.cpf[1] IN
          /\ last'.op = "set_user" =>
                 /\ k \notin DOMAIN db
                 /\ DOMAIN db' = DOMAIN db \cup {k}
          /\ last'.op = "delete_user" =>
                 /\ k \in DOMAIN db
                 /\ DOMAIN db' = DOMAIN db \ {k}
          /\ last'.op = "update_user" => DOMAIN db' = DOMAIN db
          /\ \A j \in (DOMAIN db \cap DOMAIN db') \ {k} : db'[j] = db[j]
      ]_vars

\* C19 witness: an update gave the record under one key the cpf of the other
\* key, and both keys are still there with the other entry as it was created.
C19_Witness ==
    /\ last.op = "update_user"
    /\ last.res.ok
    /\ LastUser.cpf # LastCpf
    /\ DOMAIN db = {LastCpf, LastUser.cpf}
    /\ hist[LastUser.cpf].how = "created"
    /\ db[LastUser.cpf] = hist[LastUser.cpf].rec[1]

(***************************************************************************)
(* Properties of the menu loop, checked under ShellSpec                    *)
(***************************************************************************)

\* The commands of the menu that call the store.
StoreCommands == {"create", "update", "delete", "list"}
MutatingCommands == {"create", "update", "delete"}

\* What load would make of users_data.txt, starting from an empty map.
Loaded == load_users_from_file(EmptyMap, file)

\* C4: after a store error returned to the menu command (DuplicateKey,
\* NotFound) or a failed save the loop goes on to the next command, and main
\* ends with an error only when the snapshot does not parse at startup.
C4_ErrorsKeepLoopRunning ==
    /\ (/\ last.op \in StoreCommands
        /\ (~last.res.ok \/ last.save = "failed"))
       => pc = "menu"
    /\ pc = "error" => last.op = "load"

\* C10: a menu command that mutated the map made a save before main reads the
\* next command; a save that succeeded left a text that parses to the map; and
\* whenever the loop waits for a command, loading users_data.txt (no file
\* counting as the empty map) gives the map in memory.
C10_SnapshotFollowsMemory ==
    /\ (last.op \in MutatingCommands /\ last.res.ok)
       => /\ last.save \in {"ok", "failed"}
          /\ last.save = "ok" =>
                 /\ file.exists
                 /\ from_str(file.text) = [ok |-> TRUE, map |-> db]
    /\ pc = "menu" => Loaded = [db |-> db, ok |-> TRUE]

\* C10 witness: the loop waits after a delete that was saved, with a record
\* still stored whose cpf field differs from its key.
C10_Witness ==
    /\ pc = "menu"
    /\ last.op = "delete"
    /\ last.res.ok
    /\ last.save = "ok"
    /\ file.exists
    /\ \E k \in DOMAIN db : db[k].cpf # k

C14_FailedSaveIsReconciled ==
    (last.op \in MutatingCommands /\ last.res.ok /\ last.save = "failed") =>
        /\ last.op = "create" => db[LastCpf] = LastUser
        /\ last.op = "update" => db[LastCpf] = LastUser
        /\ last.op = "delete" => LastCpf \notin DOMAIN db
        /\ ENABLED (MenuCreate \/ MenuUpdate \/ MenuDelete)

\* C18: a menu command that does not mutate (the listing, an update whose
\* get_user fails, a delete of an absent key, an invalid option) leaves the
\* map and users_data.txt as they are, makes no save, and returns to the loop.
C18_NoMutationNoSave ==
    [][(/\ pc = "menu"
        /\ \/ last'.op \in {"list", "invalid"}
           \/ (last'.op \in {"update", "delete"} /\ ~last'.res.ok))
       => (/\ db' = db
           /\ file' = file
           /\ last'.save = "none"
           /\ pc' = "menu")]_vars

\* C18 witness: an update of an absent key was answered with NotFound, the
\* loop waits again, and users_data.txt still holds the snapshot of the one
\* record stored.
C18_Witness ==
    /\ pc = "menu"
    /\ last.op = "update"
    /\ last.res = Err(NotFound)
    /\ last.save = "none"
    /\ Cardinality(DOMAIN db) = 1
    /\ file.exists
    /\ from_str(file.text) = [ok |-> TRUE, map |-> db]

(***************************************************************************)
(* Property of save and load, checked under RoundTripSpec                  *)
(***************************************************************************)

\* C15: for every map of 0, 1 or more records, a save that succeeds followed
\* by a load, the file not written in between, ends without error in a map
\* with the same keys and the same record under each key.
C15_RoundTrip ==
    pc \in {"loaded", "load_error"} =>
        /\ pc = "loaded"
        /\ DOMAIN db = DOMAIN last.res.all
        /\ \A k \in DOMAIN db : db[k] = last.res.all[k]

\* C15 witness: a map of several records was loaded back, one of them the
\* leap-day Guest record, one stored under a key other than its cpf.
C15_Witness ==
    /\ pc = "loaded"
    /\ Cardinality(DOMAIN db) > 1
    /\ \E k \in DOMAIN db : db[k].role = Guest
    /\ \E k \in DOMAIN db : db[k].cpf # k

(***************************************************************************)
(* Properties of the lock, checked under ConcSpec                          *)
(***************************************************************************)

\* Where a caller holds a guard: inside a CRUD function, or inside
\* save_users_to_file before and during fs::write.
InStore == {"in_op"}
InSave == {"serialized", "writing"}

\* The steps that take a caller out of the function it is in.
Leave(c) ==
    \/ ConcSetUser(c)
    \/ ConcGetUsers(c)
    \/ ConcGetUser(c)
    \/ ConcUpdateUser(c)
    \/ ConcDeleteUser(c)
    \/ SaveWriteBegin(c)
    \/ SaveWriteEnd(c)

\* Every caller is between commands or has ended on a store error; none is
\* in a command and none has had a save fail.
AllFinished == \A c \in Callers : At(c) \in {"idle", "error"}

\* C11: the lock is never held while users_data.txt is being written.
C11_LockFreeDuringWrite ==
    \A c \in Callers : At(c) = "writing" => lock = Free

\* C11, amended: the guard of the CRUD function is dropped when the function
\* returns, so a caller between its mutation and its save holds no lock; but
\* save_users_to_file takes the lock itself and holds it from before
\* to_string until fs::write has returned.
C11_LockScope ==
    \A c \in Callers :
        /\ At(c) = "mutated" => lock # c
        /\ At(c) \in InSave => lock = c

\* C11 witness: one caller is writing the file with the lock held while the
\* other, its mutation already in the map, has yet to save.
C11_Witness ==
    \E c1, c2 \in Callers :
        /\ At(c1) = "writing"
        /\ lock = c1
        /\ At(c2) = "mutated"

\* C12: with several callers, at most one is inside a CRUD function (or
\* inside save_users_to_file) at a time; the lock belongs to that caller and
\* to no caller that has returned, with Ok or with Err; and whoever holds
\* the lock can take a step that gives it back, so that nobody waits forever.
C12_MutualExclusion ==
    /\ Cardinality({c \in Callers : At(c) \in InStore \cup InSave}) <= 1
    /\ \A c \in Callers :
           /\ At(c) \in InStore => lock = c
           /\ At(c) \in {"idle", "mutated", "error", "save_failed"} => lock # c
    /\ lock # Free => ENABLED Leave(lock)
    /\ lock = Free => \A c \in Callers : At(c) \notin InStore \cup InSave

\* C12 witness: one caller has returned from set_user with DuplicateKey and
\* the lock it held is now held by the other caller, inside a CRUD function.
C12_Witness ==
    \E c1, c2 \in Callers :
        /\ At(c1) = "error"
        /\ At(c2) = "in_op"
        /\ lock = c2

\* C17: when callers run mutate-then-save concurrently, a write that
\* succeeds puts the map as it is at that moment into users_data.txt, and
\* once every caller has finished with no save failed, users_data.txt loads
\* to the map in memory.
C17_LastSaveIsCurrent ==
    [][/\ \A c \in Callers :
              (At(c) = "writing" /\ task'[c].at = "idle") =>
                  /\ db' = db
                  /\ from_str(file'.text) = [ok |-> TRUE, map |-> db]
       /\ AllFinished' =>
              load_users_from_file(EmptyMap, file') = [db |-> db', ok |-> TRUE]
      ]_vars

\* C17 witness: every caller has finished, the map holds two records, one
\* created and one updated, and users_data.txt holds their snapshot.
C17_Witness ==
    /\ AllFinished
    /\ \A c \in Callers : At(c) = "idle"
    /\ Cardinality(DOMAIN db) = 2
    /\ \E k \in DOMAIN db : db[k] = updated_user(k)
    /\ \E k \in DOMAIN db : db[k] = mock_user(k)
    /\ file.exists
    /\ from_str(file.text) = [ok |-> TRUE, map |-> db]

====
